---- MODULE Spec2Model ----
(***************************************************************************)
(* Model of the SST NetCDF converters: process_data.py (uint8 binary),     *)
(* convert_to_json.py (scaled-integer JSON) and sst_animated_map.py        *)
(* (download + Plotly frames).                                             *)
(*                                                                         *)
(* Units.  Temperatures are exact fixed-point numbers in millidegrees      *)
(* Celsius (1/1000 degC).  Longitudes and latitudes are whole degrees.     *)
(* Cell-bound values (metadata "bounds" of process_data) are kept in       *)
(* half-degrees, so that the division by two of the half cell size is      *)
(* exact.  Sequences are 1-based: Python index k is index k+1 here.        *)
(***************************************************************************)
EXTENDS Integers, Sequences, FiniteSets, TLC

(* ------------------------------ bounds -------------------------------- *)
MaxLon == 2
MaxLat == 3
MaxTimes == 2
MaxRuns == 3
MaxChunks == 3

(* --------------------------- program constants ------------------------ *)
SST_MIN == -2000
SST_MAX == 32000
SST_RANGE == SST_MAX - SST_MIN
NODATA == 255
U8_MAX_CODE == 254
JSON_NODATA == -999
JSON_SCALE == 100
TIME_STEP == 1

(* ----------------------------- input values --------------------------- *)
\* A temperature sample: NaN, or a finite value c in millidegrees.
NaNv == [nan |-> TRUE, c |-> 0]
T(c) == [nan |-> FALSE, c |-> c]

\* Sample temperatures of a dataset: missing, below the domain (two of them
\* around -9.99 degC), the domain's ends, inside it, and above it.
TempVals == << NaNv, T(-10000), T(-9990), T(-2000), T(-1934), T(12345),
               T(32000), T(40000) >>

LonVals == {0, 180, 181, 359, 360}
LatVals == {-88, 0, 88}

Abs(x) == IF x < 0 THEN -x ELSE x

Injective(s) == \A a, b \in DOMAIN s : s[a] = s[b] => a = b

\* Coordinate vectors of length lo..hi with distinct entries drawn from S.
CoordVectors(S, lo, hi) ==
    UNION { { s \in [1..n -> S] : Injective(s) } : n \in lo..hi }

\* The sst variable of the dataset: frame t, row i (lat), column j (lon).
Pattern(sd, nt, nla, nlo) ==
    [t \in 1..nt |-> [r \in 1..nla |-> [c \in 1..nlo |->
        TempVals[((sd + 3 * (t - 1) + (r - 1) + 2 * (c - 1)) % Len(TempVals)) + 1]]]]

(* ------------------------------ numpy --------------------------------- *)
\* np.where(lons > 180, lons - 360, lons), element by element.
\* (a comparison that also moves 180)
ConvertLonGeq(lon) == IF lon >= 180 THEN lon - 360 ELSE lon
ConvertLon(lon) == IF lon > 180 THEN lon - 360 ELSE lon

ConvertLons(ls) == [k \in DOMAIN ls |-> ConvertLon(ls[k])]

Perms(n) == { p \in [1..n -> 1..n] : Injective(p) }

\* np.argsort(keys) with the default kind ('quicksort', not stable): any
\* permutation that puts the keys in non-decreasing order can result; the
\* order of equal keys is not determined.
ArgSortDescending(keys) ==
    { p \in Perms(Len(keys)) :
        \A a, b \in 1..Len(keys) : a < b => keys[p[a]] >= keys[p[b]] }
ArgSort(keys) ==
    { p \in Perms(Len(keys)) :
        \A a, b \in 1..Len(keys) : a < b => keys[p[a]] <= keys[p[b]] }

\* -lats, and the same with the sign forgotten.
NegateDropped(v) == v
Negate(v) == [k \in DOMAIN v |-> -v[k]]

\* v[idx] : fancy indexing of a vector.
Take(v, idx) == [k \in DOMAIN idx |-> v[idx[k]]]

\* frame[:, idx] and frame[idx, :].
TakeCols(frame, idx) ==
    [r \in DOMAIN frame |-> [c \in DOMAIN idx |-> frame[r][idx[c]]]]
TakeRows(frame, idx) == [r \in DOMAIN idx |-> frame[idx[r]]]

\* seq[::step]
Subsample(s, step) ==
    [k \in 1..((Len(s) + step - 1) \div step) |-> s[(k - 1) * step + 1]]

(* ------------------------- process_data encoding ---------------------- *)
\* np.clip(normalized * 254, 0, 254).astype(np.uint8) for a finite sample of
\* v millidegrees: normalized * 254 is the rational num / SST_RANGE; the cast
\* truncates (the clipped value is never negative).
\* (the same without the subtraction of SST_MIN)
ScaledNoOffset(v) ==
    LET num == v * U8_MAX_CODE
    IN  IF num <= 0 THEN 0
        ELSE IF num >= U8_MAX_CODE * SST_RANGE THEN U8_MAX_CODE
        ELSE num \div SST_RANGE
Scaled(v) ==
    LET num == (v - SST_MIN) * U8_MAX_CODE
    IN  IF num <= 0 THEN 0
        ELSE IF num >= U8_MAX_CODE * SST_RANGE THEN U8_MAX_CODE
        ELSE num \div SST_RANGE

\* One cell of `scaled` after scaled[np.isnan(frame)] = NODATA.  The cast of
\* a NaN yields an arbitrary byte g, which the mask then overwrites.
\* (EncodeCellUnmasked: the same without the mask)
EncodeCellUnmasked(x, g) == IF x.nan THEN g ELSE Scaled(x.c)
EncodeCell(x, g) == IF x.nan THEN NODATA ELSE Scaled(x.c)

EncodeFrame(frame, g) ==
    [r \in DOMAIN frame |-> [c \in DOMAIN frame[r] |-> EncodeCell(frame[r][c], g)]]

\* ndarray.tofile of a (ntimes, nlat, nlon) array: C order, time slowest.
RECURSIVE Concat(_)
Concat(ss) == IF Len(ss) = 0 THEN << >> ELSE Head(ss) \o Concat(Tail(ss))
\* (FlattenColumnMajor: Fortran order within a frame)
FlattenColumnMajor(arr) ==
    Concat([t \in DOMAIN arr |->
        Concat([c \in DOMAIN arr[t][1] |-> [r \in DOMAIN arr[t] |-> arr[t][r][c]]])])
Flatten(arr) == Concat([t \in DOMAIN arr |-> Concat(arr[t])])

(* ------------------------ convert_to_json encoding -------------------- *)
\* np.round of the rational num / den: to nearest, ties to even.
RoundHalfEven(num, den) ==
    LET q == num \div den
        r == num % den
    IN  IF 2 * r < den THEN q
        ELSE IF 2 * r > den THEN q + 1
        ELSE IF q % 2 = 0 THEN q ELSE q + 1

\* np.where(np.isnan(x), -999, np.round(x * 100)).astype(int), one cell: for
\* x.c millidegrees, x * 100 is the rational x.c * 100 / 1000.
JsonCell(x) ==
    IF x.nan THEN JSON_NODATA ELSE RoundHalfEven(x.c * JSON_SCALE, 1000)

JsonFrame(frame) ==
    [r \in DOMAIN frame |-> [c \in DOMAIN frame[r] |-> JsonCell(frame[r][c])]]

\* str(t)[:7] : the YYYY-MM label of month number t (t = 1 is 1854-01).
TimeLabel(t) == << 1854 + (t - 1) \div 12, ((t - 1) % 12) + 1 >>

SeqMin(s) == CHOOSE x \in { s[k] : k \in DOMAIN s } : \A k \in DOMAIN s : x <= s[k]
SeqMax(s) == CHOOSE x \in { s[k] : k \in DOMAIN s } : \A k \in DOMAIN s : x >= s[k]

(* ------------------------------- state -------------------------------- *)
VARIABLES
    ds_lons,        \* sst.mnmean.nc: the lon coordinate vector
    ds_lats,        \* sst.mnmean.nc: the lat coordinate vector
    ds_times,       \* sst.mnmean.nc: the time coordinate (month numbers)
    ds_sst,         \* sst.mnmean.nc: sst(time, lat, lon)
    script,         \* which of the three scripts this run executes
    pc,             \* position in the script
    lon_sort,       \* process_data: lon_sort
    sort_idx,       \* convert_to_json / sst_animated_map: sort_idx
    lons_sorted,    \* lons_sorted (all three scripts)
    lat_flip,       \* process_data: lat_flip
    lats_sorted,    \* process_data: lats_sorted
    metadata,       \* metadata.json: << >> until written, then << record >>
    binary_data,    \* process_data: the (ntimes, nlat, nlon) uint8 array
    assigned,       \* history: how often binary_data[t] has been assigned
    i,              \* number of loop iterations completed
    sst_data_bin,   \* sst_data.bin: << >> until written, then << bytes >>
    all_data,       \* convert_to_json: all_data
    sst_data_json,  \* sst_data.json(.gz): << >> until written, then << obj >>
    frames,         \* sst_animated_map: frames
    fig,            \* sst_animated_map: << >> until built, then << figure >>
    data_file,      \* DATA_FILE on disk: << >> if absent, else << chunks >>
    body,           \* number of chunks of the complete remote file
    runs,           \* number of runs of main() started so far
    dpc,            \* position inside main() / download_data()
    status,         \* HTTP status of the response in hand (0: none)
    requests,       \* history: number of requests.get calls issued
    file_at_start,  \* history: DATA_FILE as it was when the current run began
    loaded          \* history: what load_and_process_data last opened

gridvars == << ds_lons, ds_lats, ds_times, ds_sst, script, pc, lon_sort,
               sort_idx, lons_sorted, lat_flip, lats_sorted, metadata,
               binary_data, assigned, i, sst_data_bin, all_data,
               sst_data_json, frames, fig >>
dlvars == << data_file, body, runs, dpc, status, requests, file_at_start,
             loaded >>
vars == << gridvars, dlvars >>

Scripts == {"process_data", "convert_to_json", "sst_animated_map"}

\* np.empty leaves whatever bytes the allocator returns.
GarbageBytes == {0, 171}

nlat == Len(ds_lats)
nlon == Len(ds_lons)
ntimes == Len(ds_times)

GridLocalsInit ==
    /\ lon_sort = << >> /\ sort_idx = << >> /\ lons_sorted = << >>
    /\ lat_flip = << >> /\ lats_sorted = << >> /\ metadata = << >>
    /\ binary_data = << >> /\ assigned = << >> /\ i = 0
    /\ sst_data_bin = << >> /\ all_data = << >> /\ sst_data_json = << >>
    /\ frames = << >> /\ fig = << >>

DownloadIdle ==
    /\ data_file = << >> /\ body = 1 /\ runs = 0 /\ dpc = "idle"
    /\ status = 0 /\ requests = 0 /\ file_at_start = << >> /\ loaded = << >>

\* A run of one of the converters on some dataset.
Init ==
    /\ ds_lons \in CoordVectors(LonVals, 1, MaxLon)
    /\ ds_lats \in CoordVectors(LatVals, 1, MaxLat)
    /\ \E nt \in 1..MaxTimes :
         /\ ds_times = [t \in 1..nt |-> t]
         /\ \E sd \in 0..(Len(TempVals) - 1) :
              ds_sst = Pattern(sd, nt, Len(ds_lats), Len(ds_lons))
    /\ script \in Scripts
    /\ pc = "start"
    /\ GridLocalsInit
    /\ DownloadIdle

(* ---------------------------- process_data ---------------------------- *)
\* lines 39-58: coordinates, longitude sort, latitude flip.
Process_Normalize ==
    /\ script = "process_data" /\ pc = "start"
    /\ LET lons_converted == ConvertLons(ds_lons)
       IN  /\ lon_sort' \in ArgSort(lons_converted)
           /\ lons_sorted' = Take(lons_converted, lon_sort')
    /\ lat_flip' \in ArgSort(Negate(ds_lats))
    /\ lats_sorted' = Take(ds_lats, lat_flip')
    /\ pc' = "metadata"
    /\ UNCHANGED << ds_lons, ds_lats, ds_times, ds_sst, script, sort_idx,
                    metadata, binary_data, assigned, i, sst_data_bin,
                    all_data, sst_data_json, frames, fig >>
    /\ UNCHANGED dlvars

\* lines 63-65 index element 1 of both sorted vectors: IndexError when the
\* grid has a single row or a single column.
Process_IndexError ==
    /\ script = "process_data" /\ pc = "metadata"
    /\ (nlon < 2 \/ nlat < 2)
    /\ pc' = "error"
    /\ UNCHANGED << ds_lons, ds_lats, ds_times, ds_sst, script, lon_sort,
                    sort_idx, lons_sorted, lat_flip, lats_sorted, metadata,
                    binary_data, assigned, i, sst_data_bin, all_data,
                    sst_data_json, frames, fig >>
    /\ UNCHANGED dlvars

\* (ProcessMetadataSwapped: nlat and nlon exchanged)
ProcessMetadataSwapped ==
    LET half_lon2 == Abs(lons_sorted[2] - lons_sorted[1])
        half_lat2 == Abs(lats_sorted[2] - lats_sorted[1])
    IN  [ nlat |-> nlon, nlon |-> nlat, ntimes |-> ntimes,
          times |-> [t \in 1..ntimes |-> TimeLabel(ds_times[t])],
          lats |-> lats_sorted,
          lons |-> lons_sorted,
          bounds |-> [ north |-> 2 * lats_sorted[1] + half_lat2,
                       south |-> 2 * lats_sorted[Len(lats_sorted)] - half_lat2,
                       west |-> 2 * lons_sorted[1] - half_lon2,
                       east |-> 2 * lons_sorted[Len(lons_sorted)] + half_lon2 ],
          encoding |-> [ min |-> SST_MIN, max |-> SST_MAX, nodata |-> NODATA ] ]

\* lines 60-93: build metadata and write metadata.json.  Bounds are in
\* half-degrees: 2 * (edge + half cell).
ProcessMetadata ==
    LET half_lon2 == Abs(lons_sorted[2] - lons_sorted[1])
        half_lat2 == Abs(lats_sorted[2] - lats_sorted[1])
    IN  [ nlat |-> nlat, nlon |-> nlon, ntimes |-> ntimes,
          times |-> [t \in 1..ntimes |-> TimeLabel(ds_times[t])],
          lats |-> lats_sorted,
          lons |-> lons_sorted,
          bounds |-> [ north |-> 2 * lats_sorted[1] + half_lat2,
                       south |-> 2 * lats_sorted[Len(lats_sorted)] - half_lat2,
                       west |-> 2 * lons_sorted[1] - half_lon2,
                       east |-> 2 * lons_sorted[Len(lons_sorted)] + half_lon2 ],
          encoding |-> [ min |-> SST_MIN, max |-> SST_MAX, nodata |-> NODATA ] ]

Process_Metadata ==
    /\ script = "process_data" /\ pc = "metadata"
    /\ nlon >= 2 /\ nlat >= 2
    /\ metadata' = << ProcessMetadata >>
    /\ pc' = "alloc"
    /\ UNCHANGED << ds_lons, ds_lats, ds_times, ds_sst, script, lon_sort,
                    sort_idx, lons_sorted, lat_flip, lats_sorted,
                    binary_data, assigned, i, sst_data_bin, all_data,
                    sst_data_json, frames, fig >>
    /\ UNCHANGED dlvars

\* line 97: binary_data = np.empty((ntimes, nlat, nlon), dtype=np.uint8)
Process_Alloc ==
    /\ script = "process_data" /\ pc = "alloc"
    /\ \E g \in GarbageBytes :
         binary_data' = [t \in 1..ntimes |-> [r \in 1..nlat |-> [c \in 1..nlon |-> g]]]
    /\ assigned' = [t \in 1..ntimes |-> 0]
    /\ i' = 0
    /\ pc' = "loop"
    /\ UNCHANGED << ds_lons, ds_lats, ds_times, ds_sst, script, lon_sort,
                    sort_idx, lons_sorted, lat_flip, lats_sorted, metadata,
                    sst_data_bin, all_data, sst_data_json, frames, fig >>
    /\ UNCHANGED dlvars

\* lines 100-111, one iteration: the encoded frame of time index i.
\* (ProcessFrameRowsOnly: the same without the longitude reordering)
ProcessFrameRowsOnly(t, g) ==
    EncodeFrame(TakeRows(ds_sst[t], lat_flip), g)
ProcessFrame(t, g) ==
    EncodeFrame(TakeRows(TakeCols(ds_sst[t], lon_sort), lat_flip), g)

Process_Frame ==
    /\ script = "process_data" /\ pc = "loop"
    /\ i < ntimes
    /\ \E g \in GarbageBytes :
         binary_data' = [binary_data EXCEPT ![i + 1] = ProcessFrame(i + 1, g)]
    /\ assigned' = [assigned EXCEPT ![i + 1] = @ + 1]
    /\ i' = i + 1
    /\ UNCHANGED << ds_lons, ds_lats, ds_times, ds_sst, script, pc, lon_sort,
                    sort_idx, lons_sorted, lat_flip, lats_sorted, metadata,
                    sst_data_bin, all_data, sst_data_json, frames, fig >>
    /\ UNCHANGED dlvars

\* lines 117-118: binary_data.tofile(output_path)
Process_ToFile ==
    /\ script = "process_data" /\ pc = "loop"
    /\ i = ntimes
    /\ sst_data_bin' = << Flatten(binary_data) >>
    /\ pc' = "done"
    /\ UNCHANGED << ds_lons, ds_lats, ds_times, ds_sst, script, lon_sort,
                    sort_idx, lons_sorted, lat_flip, lats_sorted, metadata,
                    binary_data, assigned, i, all_data, sst_data_json,
                    frames, fig >>
    /\ UNCHANGED dlvars

(* --------------------------- convert_to_json -------------------------- *)
\* The dataset after sst.isel(time=slice(None, None, TIME_STEP)).
sub_times == Subsample(ds_times, TIME_STEP)
sub_sst == Subsample(ds_sst, TIME_STEP)

\* sst.sel(time=t).values : the frame whose time coordinate is t.
SelTime(t) == sub_sst[CHOOSE k \in DOMAIN sub_times : sub_times[k] = t]

\* lines 26-37
Convert_Normalize ==
    /\ script = "convert_to_json" /\ pc = "start"
    /\ LET lons_converted == ConvertLons(ds_lons)
       IN  /\ sort_idx' \in ArgSort(lons_converted)
           /\ lons_sorted' = Take(lons_converted, sort_idx')
    /\ pc' = "metadata"
    /\ UNCHANGED << ds_lons, ds_lats, ds_times, ds_sst, script, lon_sort,
                    lat_flip, lats_sorted, metadata, binary_data, assigned,
                    i, sst_data_bin, all_data, sst_data_json, frames, fig >>
    /\ UNCHANGED dlvars

\* lines 45-62
ConvertMetadata ==
    [ lons |-> lons_sorted,
      lats |-> ds_lats,
      times |-> [t \in DOMAIN sub_times |-> TimeLabel(sub_times[t])],
      bounds |-> [ minLon |-> SeqMin(lons_sorted), maxLon |-> SeqMax(lons_sorted),
                   minLat |-> SeqMin(ds_lats), maxLat |-> SeqMax(ds_lats) ],
      valueRange |-> [ min |-> -2, max |-> 32 ] ]

Convert_Metadata ==
    /\ script = "convert_to_json" /\ pc = "metadata"
    /\ metadata' = << ConvertMetadata >>
    /\ all_data' = << >>
    /\ i' = 0
    /\ pc' = "loop"
    /\ UNCHANGED << ds_lons, ds_lats, ds_times, ds_sst, script, lon_sort,
                    sort_idx, lons_sorted, lat_flip, lats_sorted,
                    binary_data, assigned, sst_data_bin, sst_data_json,
                    frames, fig >>
    /\ UNCHANGED dlvars

\* lines 69-75, one iteration
ConvertFrame(t) == JsonFrame(TakeCols(SelTime(t), sort_idx))

Convert_Frame ==
    /\ script = "convert_to_json" /\ pc = "loop"
    /\ i < Len(sub_times)
    /\ all_data' = Append(all_data, ConvertFrame(sub_times[i + 1]))
    /\ i' = i + 1
    /\ UNCHANGED << ds_lons, ds_lats, ds_times, ds_sst, script, pc, lon_sort,
                    sort_idx, lons_sorted, lat_flip, lats_sorted, metadata,
                    binary_data, assigned, sst_data_bin, sst_data_json,
                    frames, fig >>
    /\ UNCHANGED dlvars

\* lines 82-90: the same object goes to sst_data.json.gz and sst_data.json
Convert_Save ==
    /\ script = "convert_to_json" /\ pc = "loop"
    /\ i = Len(sub_times)
    /\ sst_data_json' = << [data |-> all_data] >>
    /\ pc' = "done"
    /\ UNCHANGED << ds_lons, ds_lats, ds_times, ds_sst, script, lon_sort,
                    sort_idx, lons_sorted, lat_flip, lats_sorted, metadata,
                    binary_data, assigned, i, sst_data_bin, all_data,
                    frames, fig >>
    /\ UNCHANGED dlvars

(* --------------------------- sst_animated_map ------------------------- *)
\* create_animation, lines 89-99.  load_and_process_data has subsampled the
\* time axis by TIME_STEP (SPATIAL_SUBSAMPLE = 1 leaves the grid alone).
Animate_Normalize ==
    /\ script = "sst_animated_map" /\ pc = "start"
    /\ LET lons_converted == ConvertLons(ds_lons)
       IN  /\ sort_idx' \in ArgSort(lons_converted)
           /\ lons_sorted' = Take(lons_converted, sort_idx')
    /\ frames' = << >>
    /\ i' = 0
    /\ pc' = "loop"
    /\ UNCHANGED << ds_lons, ds_lats, ds_times, ds_sst, script, lon_sort,
                    lat_flip, lats_sorted, metadata, binary_data, assigned,
                    sst_data_bin, all_data, sst_data_json, fig >>
    /\ UNCHANGED dlvars

\* lines 101-128: go.Frame(data=[go.Heatmap(z=, x=, y=)], name=)
AnimateFrame(t) ==
    [ z |-> TakeCols(SelTime(t), sort_idx),
      x |-> lons_sorted,
      y |-> ds_lats,
      name |-> TimeLabel(t) ]

Animate_Frame ==
    /\ script = "sst_animated_map" /\ pc = "loop"
    /\ i < Len(sub_times)
    /\ frames' = Append(frames, AnimateFrame(sub_times[i + 1]))
    /\ i' = i + 1
    /\ UNCHANGED << ds_lons, ds_lats, ds_times, ds_sst, script, pc, lon_sort,
                    sort_idx, lons_sorted, lat_flip, lats_sorted, metadata,
                    binary_data, assigned, sst_data_bin, all_data,
                    sst_data_json, fig >>
    /\ UNCHANGED dlvars

\* lines 135-155: the figure with the first frame's data and all frames
Animate_Figure ==
    /\ script = "sst_animated_map" /\ pc = "loop"
    /\ i = Len(sub_times)
    /\ fig' = << [ z |-> TakeCols(sub_sst[1], sort_idx),
                   x |-> lons_sorted,
                   y |-> ds_lats,
                   frames |-> frames ] >>
    /\ pc' = "done"
    /\ UNCHANGED << ds_lons, ds_lats, ds_times, ds_sst, script, lon_sort,
                    sort_idx, lons_sorted, lat_flip, lats_sorted, metadata,
                    binary_data, assigned, i, sst_data_bin, all_data,
                    sst_data_json, frames >>
    /\ UNCHANGED dlvars

Next ==
    \/ Process_Normalize
    \/ Process_IndexError
    \/ Process_Metadata
    \/ Process_Alloc
    \/ Process_Frame
    \/ Process_ToFile
    \/ Convert_Normalize
    \/ Convert_Metadata
    \/ Convert_Frame
    \/ Convert_Save
    \/ Animate_Normalize
    \/ Animate_Frame
    \/ Animate_Figure

Spec == Init /\ [][Next]_vars

(* ------------------- sst_animated_map: download_data ------------------ *)
\* The complete remote file, as the chunks iter_content would deliver.
FullBody == [k \in 1..body |-> k]

HttpStatuses == {200, 404, 503}

\* Successive runs of main() in a working directory that starts either
\* without DATA_FILE or with a complete copy of it.
InitDownload ==
    /\ ds_lons = << 0 >> /\ ds_lats = << 0 >> /\ ds_times = << 1 >>
    /\ ds_sst = << << << NaNv >> >> >>
    /\ script = "sst_animated_map" /\ pc = "start"
    /\ GridLocalsInit
    /\ body \in 1..MaxChunks
    /\ data_file \in { << >>, << FullBody >> }
    /\ runs = 0 /\ dpc = "idle" /\ status = 0 /\ requests = 0
    /\ file_at_start = << >> /\ loaded = << >>

\* main() is started (line 262 calls download_data).
Download_Start ==
    /\ dpc = "idle" /\ runs < MaxRuns
    /\ runs' = runs + 1
    /\ file_at_start' = data_file
    /\ dpc' = "exists"
    /\ UNCHANGED << data_file, body, status, requests, loaded >>
    /\ UNCHANGED gridvars

\* lines 29-31: os.path.exists(DATA_FILE) -> return
Download_Skip ==
    /\ dpc = "exists" /\ data_file # << >>
    /\ dpc' = "load"
    /\ UNCHANGED << data_file, body, runs, status, requests, file_at_start, loaded >>
    /\ UNCHANGED gridvars

\* line 36: requests.get(DATA_URL, stream=True) returns a response
Download_Get ==
    /\ dpc = "exists" /\ data_file = << >>
    /\ requests' = requests + 1
    /\ status' \in HttpStatuses
    /\ dpc' = "raise_for_status"
    /\ UNCHANGED << data_file, body, runs, file_at_start, loaded >>
    /\ UNCHANGED gridvars

\* line 36: requests.get raises (no connection); the run ends
Download_ConnectError ==
    /\ dpc = "exists" /\ data_file = << >>
    /\ requests' = requests + 1
    /\ dpc' = "idle"
    /\ UNCHANGED << data_file, body, runs, status, file_at_start, loaded >>
    /\ UNCHANGED gridvars

\* line 37: response.raise_for_status() raises HTTPError; the run ends
Download_HttpError ==
    /\ dpc = "raise_for_status" /\ status >= 400
    /\ status' = 0
    /\ dpc' = "idle"
    /\ UNCHANGED << data_file, body, runs, requests, file_at_start, loaded >>
    /\ UNCHANGED gridvars

\* lines 39-42: open(DATA_FILE, 'wb') creates the file, empty
Download_Open ==
    /\ dpc = "raise_for_status" /\ status < 400
    /\ data_file' = << << >> >>
    /\ dpc' = "write"
    /\ UNCHANGED << body, runs, status, requests, file_at_start, loaded >>
    /\ UNCHANGED gridvars

\* lines 43-45: one chunk received and written
Download_WriteChunk ==
    /\ dpc = "write" /\ Len(data_file[1]) < body
    /\ data_file' = << Append(data_file[1], Len(data_file[1]) + 1) >>
    /\ UNCHANGED << body, runs, dpc, status, requests, file_at_start, loaded >>
    /\ UNCHANGED gridvars

\* line 43: iter_content raises while the body is incomplete (connection
\* lost); the with block closes the file and the exception ends the run.
Download_ChunkError ==
    /\ dpc = "write" /\ Len(data_file[1]) < body
    /\ status' = 0
    /\ dpc' = "idle"
    /\ UNCHANGED << data_file, body, runs, requests, file_at_start, loaded >>
    /\ UNCHANGED gridvars

\* lines 43-50: the body is exhausted, the file is closed
Download_Complete ==
    /\ dpc = "write" /\ Len(data_file[1]) = body
    /\ status' = 0
    /\ dpc' = "load"
    /\ UNCHANGED << data_file, body, runs, requests, file_at_start, loaded >>
    /\ UNCHANGED gridvars

\* line 265 / line 56: xr.open_dataset(DATA_FILE); the rest of the run does
\* not touch DATA_FILE.
Download_Load ==
    /\ dpc = "load"
    /\ loaded' = data_file
    /\ dpc' = "idle"
    /\ UNCHANGED << data_file, body, runs, status, requests, file_at_start >>
    /\ UNCHANGED gridvars

NextDownload ==
    \/ Download_Start
    \/ Download_Skip
    \/ Download_Get
    \/ Download_ConnectError
    \/ Download_HttpError
    \/ Download_Open
    \/ Download_WriteChunk
    \/ Download_ChunkError
    \/ Download_Complete
    \/ Download_Load

SpecDownload == InitDownload /\ [][NextDownload]_vars

(* ====================================================================== *)
(*                              Properties                                *)
(* ====================================================================== *)
\* process_data has encoded frames 1..i into binary_data.
InProcessLoop == script = "process_data" /\ pc \in {"loop", "done"}

\* The cells of binary_data assigned so far.
EncodedCells ==
    IF InProcessLoop THEN (1..i) \X (1..nlat) \X (1..nlon) ELSE { }

\* The source sample behind output cell (t, r, c) of process_data.
SourceOf(t, r, c) == ds_sst[t][lat_flip[r]][lon_sort[c]]

\* |c/254*34 - 2 - v| <= 34/254, for v in millidegrees, cross-multiplied.
WithinOneStep(code, v) ==
    Abs(code * SST_RANGE - (v - SST_MIN) * U8_MAX_CODE) <= SST_RANGE

InDomain(v) == SST_MIN <= v /\ v <= SST_MAX

C2_SentinelIffNaN ==
    \A cell \in EncodedCells :
        (binary_data[cell[1]][cell[2]][cell[3]] = NODATA)
            <=> SourceOf(cell[1], cell[2], cell[3]).nan

\* A frame has been encoded that holds a NaN (written as 255) and a sample
\* above the domain (written as 254).
C2_Witness ==
    /\ \E cell \in EncodedCells :
         /\ SourceOf(cell[1], cell[2], cell[3]).nan
         /\ binary_data[cell[1]][cell[2]][cell[3]] = NODATA
    /\ \E cell \in EncodedCells :
         /\ SourceOf(cell[1], cell[2], cell[3]) = T(40000)
         /\ binary_data[cell[1]][cell[2]][cell[3]] = U8_MAX_CODE

\* The longitude sort index of the running script, once computed.
Normalized == pc # "start"
SortIndex == IF script = "process_data" THEN lon_sort ELSE sort_idx

StrictlyAscending(v) == \A a, b \in DOMAIN v : a < b => v[a] < v[b]
NonDecreasing(v) == \A a, b \in DOMAIN v : a < b => v[a] <= v[b]
NonIncreasing(v) == \A a, b \in DOMAIN v : a < b => v[a] >= v[b]

\* idx keeps source columns with equal keys in their original order.
StableFor(idx, keys) ==
    \A a, b \in DOMAIN idx :
        (a < b /\ keys[idx[a]] = keys[idx[b]]) => idx[a] < idx[b]

InZeroTo360(lon) == 0 <= lon /\ lon < 360

\* C3 (as stated): in all three scripts the longitude index is a permutation
\* of the columns under which the converted longitudes are strictly
\* ascending, and it is stable for equal converted longitudes.
C3_StrictStablePermutation ==
    Normalized =>
        /\ SortIndex \in Perms(nlon)
        /\ lons_sorted = [k \in 1..nlon |-> ConvertLon(ds_lons[SortIndex[k]])]
        /\ StrictlyAscending(lons_sorted)
        /\ StableFor(SortIndex, [k \in 1..nlon |-> ConvertLon(ds_lons[k])])

\* C3 (amended): in all three scripts the longitude index is a permutation of
\* the columns under which the converted longitudes are non-decreasing; they
\* are strictly ascending when the input longitudes are distinct values in
\* [0, 360).  The order of columns with equal converted longitudes (inputs 0
\* and 360) is not determined.
C3_SortedPermutation ==
    Normalized =>
        /\ SortIndex \in Perms(nlon)
        /\ lons_sorted = [k \in 1..nlon |-> ConvertLon(ds_lons[SortIndex[k]])]
        /\ NonDecreasing(lons_sorted)
        /\ (\A k \in 1..nlon : InZeroTo360(ds_lons[k]))
              => StrictlyAscending(lons_sorted)

\* Longitudes in [0, 360) that are out of order after conversion have been
\* sorted by a script: the index is not the identity.
C3_Witness ==
    /\ Normalized
    /\ nlon >= 2
    /\ \A k \in 1..nlon : InZeroTo360(ds_lons[k])
    /\ SortIndex[1] # 1

\* C8: an input longitude in [0, 360) is published as a longitude in
\* (-180, 180] congruent to it modulo 360: unchanged up to and including 180,
\* reduced by 360 above 180; distinct inputs give distinct outputs.
C8_LongitudeConversion ==
    Normalized =>
        /\ \A k \in DOMAIN lons_sorted :
             LET lon == ds_lons[SortIndex[k]]
                 out == lons_sorted[k]
             IN  InZeroTo360(lon) =>
                   /\ -180 < out /\ out <= 180
                   /\ (out - lon) % 360 = 0
                   /\ (lon <= 180 => out = lon)
                   /\ (lon > 180 => out = lon - 360)
        /\ \A k, m \in DOMAIN lons_sorted :
             LET lon1 == ds_lons[SortIndex[k]]
                 lon2 == ds_lons[SortIndex[m]]
             IN  (InZeroTo360(lon1) /\ InZeroTo360(lon2) /\ lon1 # lon2)
                   => lons_sorted[k] # lons_sorted[m]

\* A script has converted both the longitude 180 (kept) and a longitude
\* above 180 (reduced by 360).
C8_Witness ==
    /\ Normalized
    /\ \E k \in DOMAIN lons_sorted :
         ds_lons[SortIndex[k]] = 180 /\ lons_sorted[k] = 180
    /\ \E k \in DOMAIN lons_sorted :
         ds_lons[SortIndex[k]] = 181 /\ lons_sorted[k] = -179

\* process_data has written metadata.json.
ProcessMetaWritten == script = "process_data" /\ metadata # << >>

\* C7: whatever the order of the input latitudes, process_data publishes the
\* latitudes north to south (non-increasing), its frame rows follow that
\* order, and the bounds satisfy north >= south and west <= east.
C7_NorthToSouth ==
    ProcessMetaWritten =>
        LET m == metadata[1]
        IN  /\ NonIncreasing(m.lats)
            /\ m.bounds.north >= m.bounds.south
            /\ m.bounds.west <= m.bounds.east
            /\ \A cell \in EncodedCells :
                 \E a \in 1..nlat :
                    /\ ds_lats[a] = m.lats[cell[2]]
                    /\ \A c \in 1..nlon :
                         binary_data[cell[1]][cell[2]][c]
                            = EncodeCell(ds_sst[cell[1]][a][lon_sort[c]], 0)

\* A dataset whose latitudes are neither ascending nor descending has had a
\* frame encoded.
C7_Witness ==
    /\ ProcessMetaWritten
    /\ EncodedCells # { }
    /\ ~NonIncreasing(ds_lats)
    /\ ~NonDecreasing(ds_lats)

\* Every frame in fs has rows rows of cols values.
HasShape(fs, rows, cols) ==
    \A t \in DOMAIN fs :
        /\ Len(fs[t]) = rows
        /\ \A r \in DOMAIN fs[t] : Len(fs[t][r]) = cols

\* C6: the grid shape is constant across the run and the metadata agrees with
\* the data: process_data's nlat, nlon, ntimes equal the lengths of its lats,
\* lons and times lists and the dimensions of the binary array; in
\* convert_to_json 'data' has one frame per time label, each of len(lats)
\* rows of len(lons) values.
C6_ShapeAgreesWithMetadata ==
    /\ ProcessMetaWritten =>
         LET m == metadata[1]
         IN  /\ m.nlat = Len(m.lats) /\ m.nlon = Len(m.lons)
             /\ m.ntimes = Len(m.times)
             /\ InProcessLoop =>
                  /\ Len(binary_data) = m.ntimes
                  /\ HasShape(binary_data, m.nlat, m.nlon)
             /\ sst_data_bin # << >> =>
                  Len(sst_data_bin[1]) = m.ntimes * m.nlat * m.nlon
    /\ (script = "convert_to_json" /\ metadata # << >>) =>
         LET m == metadata[1]
         IN  /\ HasShape(all_data, Len(m.lats), Len(m.lons))
             /\ Len(all_data) = i
             /\ sst_data_json # << >> =>
                  /\ Len(sst_data_json[1].data) = Len(m.times)
                  /\ HasShape(sst_data_json[1].data, Len(m.lats), Len(m.lons))

\* A converter has finished a dataset of several time steps on a grid that
\* is not square.
C6_Witness ==
    /\ pc = "done"
    /\ ntimes >= 2 /\ nlat # nlon
    /\ \/ sst_data_bin # << >>
       \/ sst_data_json # << >>

\* The byte that a finite sample of v millidegrees must be encoded as: 0 at
\* or below -2 degC, 254 at or above 32 degC, in between the step k reached
\* by the linear map of [-2, 32] onto [0, 254].
IsLinearCode(code, v) ==
    IF v <= SST_MIN THEN code = 0
    ELSE IF v >= SST_MAX THEN code = U8_MAX_CODE
    ELSE /\ code * SST_RANGE <= (v - SST_MIN) * U8_MAX_CODE
         /\ (v - SST_MIN) * U8_MAX_CODE < (code + 1) * SST_RANGE

\* C5: sst_data.bin is exactly ntimes*nlat*nlon bytes in row-major (time,
\* lat, lon) order: the byte at offset t*nlat*nlon + i*nlon + j encodes the
\* reordered frame t at row i, column j, a finite sample being mapped
\* linearly from [-2, 32] onto [0, 254] with clamping; frames are written in
\* time order, each frame slot assigned exactly once.
C5_BinaryLayout ==
    /\ InProcessLoop =>
         \A t \in 1..ntimes : assigned[t] = (IF t <= i THEN 1 ELSE 0)
    /\ (script = "process_data" /\ sst_data_bin # << >>) =>
         LET bytes == sst_data_bin[1]
         IN  /\ Len(bytes) = ntimes * nlat * nlon
             /\ \A t \in 0..(ntimes - 1), r \in 0..(nlat - 1), c \in 0..(nlon - 1) :
                  LET b == bytes[t * nlat * nlon + r * nlon + c + 1]
                      x == SourceOf(t + 1, r + 1, c + 1)
                  IN  IF x.nan THEN b = NODATA ELSE IsLinearCode(b, x.c)

\* sst_data.bin has been written for several time steps of a grid that is
\* not square and holds distinct codes.
C5_Witness ==
    /\ script = "process_data" /\ sst_data_bin # << >>
    /\ ntimes >= 2 /\ nlat = 3 /\ nlon = 2
    /\ \E k, m \in DOMAIN sst_data_bin[1] :
         sst_data_bin[1][k] = 107 /\ sst_data_bin[1][m] = NODATA

\* Output cell (r, c) of a frame carries value val, published under latitude
\* plat and longitude plon: some source sample (a, b) of frame src has that
\* latitude, that converted longitude, and yields val through enc.
AlignedCell(src, val, plat, plon, enc(_)) ==
    \E a \in 1..nlat, b \in 1..nlon :
        /\ ds_lats[a] = plat
        /\ (IF ds_lons[b] > 180 THEN ds_lons[b] - 360 ELSE ds_lons[b]) = plon
        /\ val = enc(src[a][b])

ByteOf(x) == EncodeCell(x, 0)
Plotted(x) == x

\* C9: coordinates and data stay aligned in all three scripts: the value
\* written or plotted at (t, i, j) derives from the source sample of frame t
\* whose latitude is the i-th published latitude and whose converted
\* longitude is the j-th published longitude.
C9_CoordinatesAligned ==
    /\ (InProcessLoop /\ metadata # << >>) =>
         \A cell \in EncodedCells :
             AlignedCell(ds_sst[cell[1]],
                         binary_data[cell[1]][cell[2]][cell[3]],
                         metadata[1].lats[cell[2]],
                         metadata[1].lons[cell[3]], ByteOf)
    /\ (script = "convert_to_json" /\ metadata # << >>) =>
         \A t \in DOMAIN all_data, r \in 1..nlat, c \in 1..nlon :
             AlignedCell(ds_sst[t], all_data[t][r][c],
                         metadata[1].lats[r], metadata[1].lons[c], JsonCell)
    /\ script = "sst_animated_map" =>
         /\ \A t \in DOMAIN frames, r \in 1..nlat, c \in 1..nlon :
              AlignedCell(ds_sst[t], frames[t].z[r][c],
                          frames[t].y[r], frames[t].x[c], Plotted)
         /\ fig # << >> =>
              \A r \in 1..nlat, c \in 1..nlon :
                  AlignedCell(ds_sst[1], fig[1].z[r][c],
                              fig[1].y[r], fig[1].x[c], Plotted)

\* process_data has encoded a frame of a dataset whose longitudes had to be
\* reordered and whose latitudes had to be flipped.
C9_Witness ==
    /\ InProcessLoop /\ i >= 1
    /\ lon_sort[1] # 1
    /\ lat_flip[1] # 1
    /\ \A k \in 1..nlon : InZeroTo360(ds_lons[k])

\* C4: every encoded value lies in a fixed finite range with one reserved
\* sentinel that no valid sample encodes to: convert_to_json emits -999 for a
\* cell exactly when the source sample is NaN, and every code of process_data
\* is in 0..255.
C4_SentinelNeverCollides ==
    /\ script = "convert_to_json" =>
         \A t \in DOMAIN all_data, r \in 1..nlat, c \in 1..nlon :
             (all_data[t][r][c] = JSON_NODATA)
                <=> ds_sst[t][r][sort_idx[c]].nan
    /\ \A cell \in EncodedCells :
         binary_data[cell[1]][cell[2]][cell[3]] \in 0..255

\* The complete file is on disk.
FileComplete == data_file = << FullBody >>

\* C10: across runs of download_data, DATA_FILE, whenever it exists at the
\* start of a run, is a complete download: requests are issued only when the
\* file is absent, a present file is left unchanged, an HTTP error status
\* creates no file, and no failed run leaves a partial file behind for a
\* later run to skip on and load.
C10_FileCompleteAtRunStart ==
    /\ (dpc = "exists" /\ data_file # << >>) => FileComplete
    /\ (dpc = "load") => FileComplete
    /\ loaded # << >> => loaded = << FullBody >>
====
